---- MODULE Spec2Model ----
(***************************************************************************)
(* A model of the state machine engine of statemachine/machine.py and the  *)
(* data types of statemachine/types.py.                                    *)
(*                                                                         *)
(* The engine's fields are the variables, each public operation is an      *)
(* action, and run() is cut into the steps at which it reads the clock or  *)
(* calls back into the embedding application (handler, guards).            *)
(* Optional values that are not states are sequences: <<>> is None and     *)
(* <<v>> is the value v.  Optional states use the string "None".           *)
(***************************************************************************)
EXTENDS Integers, Sequences, FiniteSets, TLC

VARIABLES
    cfg,                    \* what define_states/define_state_metadata/
                            \* define_transitions/get_initial_state return,
                            \* and the _handle_<state> methods of the subclass
    now,                    \* time.time()
    states,                 \* self._states
    state_metadata,         \* self._state_metadata
    transitions,            \* self._transitions
    current_state,          \* self._current_state
    transition_map,         \* self._transition_map
    state_history,          \* self._state_history
    retry_counts,           \* self._retry_counts
    initialized,            \* self._initialized
    watchdog_timeout,       \* self._watchdog_timeout
    watchdog_last_activity, \* self._watchdog_last_activity
    watchdog_warned,        \* self._watchdog_warned
    pc,                     \* where the thread driving run() stands
    steps,                  \* run(): steps
    prev_state,             \* run(): prev_state
    exec_state,             \* _execute_state(): state
    retry_count,            \* _execute_state(): retry_count
    start_time,             \* StateExecutionContext.start_time
    result,                 \* _execute_state(): result
    raised,                 \* the exception the last public call raised
    run_status,             \* how the last run() call ended
    runs,                   \* number of run() calls made
    executed,               \* the states this run() executed, with the
                            \* handler outcomes and attempts of each
    selection,              \* the last next-state selection of the run loop
    last_op,                \* the last public operation called
    returned,               \* what the last get_history() call returned
    built,                  \* the last StateMetadata(...) construction
    warnings,               \* warnings the watchdog logged since the last
                            \* enable_watchdog() or record_activity()
    previous                \* what an earlier engine of the same class
                            \* showed when its run() had ended

engine == <<states, state_metadata, transitions, current_state, transition_map,
            state_history, retry_counts, initialized, watchdog_timeout,
            watchdog_last_activity, watchdog_warned>>
local == <<pc, steps, prev_state, exec_state, retry_count, start_time, result>>
ghost == <<raised, run_status, runs, executed, selection, last_op, returned,
           built, warnings, previous>>
config_fields == <<states, state_metadata, transitions, transition_map>>
watchdog == <<watchdog_timeout, watchdog_last_activity, watchdog_warned>>
attempt == <<exec_state, retry_count, start_time, result>>
vars == <<cfg, now, engine, local, ghost>>

----------------------------------------------------------------------------
(* Bounds of the exploration.                                              *)

MaxRetries == 2          \* largest max_retries a configuration uses
MaxTime == 3             \* the clock runs from 0 to MaxTime
MaxRuns == 2             \* run() calls per behaviour
MaxCalls == 2            \* invocations per attempt that the visit log
                         \* records; later ones are not logged
\* MAX_STATES_PER_RUN is 100 in machine.py:73 and the history deque holds 100
\* entries (machine.py:82); both are scaled down so that the cap and the
\* eviction are reached.
MAX_STATES_PER_RUN == 2
\* the clock of the watchdog warning specification runs to WarnMaxTime
WarnMaxTime == 9
HistoryMaxLen == 3

----------------------------------------------------------------------------
(* types.py                                                                *)

None == "None"
NoValue == <<>>
Some(v) == <<v>>

\* class StateResult
SUCCESS == "SUCCESS"
FAILURE == "FAILURE"
RETRY == "RETRY"
SKIP == "SKIP"
TIMEOUT == "TIMEOUT"
StateResult == {SUCCESS, FAILURE, RETRY, SKIP, TIMEOUT}
\* what one handler invocation does: return a StateResult or raise
RAISE == "RAISE"

\* the Enum the subclass declares, and a member of another Enum
Steps == {"A", "B", "C"}
OtherX == "X"

\* StateMetadata defaults
DefaultMaxRetries == 3

StateMetadata(max_retries, timeout, failover_state) ==
    [max_retries |-> max_retries, timeout |-> timeout,
     failover_state |-> failover_state]

\* StateMetadata.__post_init__: "ok", or the ValueError it raises
\* (variant: a timeout of 0 is accepted)
post_init_negative_timeout_only(max_retries, timeout) ==
    IF max_retries < 0 THEN "ValueError"
    ELSE IF timeout # NoValue /\ timeout[1] < 0 THEN "ValueError"
    ELSE "ok"
post_init(max_retries, timeout) ==
    IF max_retries < 0 THEN "ValueError"
    ELSE IF timeout # NoValue /\ timeout[1] <= 0 THEN "ValueError"
    ELSE "ok"

StateTransition(from_state, to_state, condition) ==
    [from_state |-> from_state, to_state |-> to_state, condition |-> condition]

StateHistoryEntry(state, res, rc, error_message) ==
    [state |-> state, result |-> res, retry_count |-> rc,
     error_message |-> error_message]

\* StateExecutionContext.elapsed_time
elapsed_time(start, t) == t - start

\* StateExecutionContext.has_timed_out
\* (variant: only once the timeout is exceeded)
has_timed_out_when_exceeded(start, t, timeout) ==
    IF timeout = NoValue THEN FALSE ELSE elapsed_time(start, t) > timeout[1]
has_timed_out(start, t, timeout) ==
    IF timeout = NoValue THEN FALSE ELSE elapsed_time(start, t) >= timeout[1]

\* StateTransition.can_transition; g is what calling the condition does:
\* "true", "false" (the bool() of what it returns) or "raise"
GuardOutcome == {"true", "false", "raise"}
\* (variant: a condition that raises lets the transition pass)
can_transition_unless_false(t, g) ==
    IF t.condition = None THEN TRUE ELSE g # "false"
can_transition(t, g) ==
    IF t.condition = None THEN TRUE ELSE g = "true"

----------------------------------------------------------------------------
(* The configurations a subclass supplies.                                 *)

\* function helpers for Python dicts
EmptyDict == [x \in {} |-> 0]
DictSet(d, k, v) == [x \in (DOMAIN d) \cup {k} |-> IF x = k THEN v ELSE d[x]]
DictGet(d, k, default) == IF k \in DOMAIN d THEN d[k] ELSE default

\* define_transitions(): "g" marks a transition with a condition
TransitionLists == {
    << >>,
    << StateTransition("A", "B", None) >>,
    << StateTransition("A", "B", None), StateTransition("B", "C", None) >>,
    << StateTransition("A", "A", None) >>,
    << StateTransition("A", "B", None), StateTransition("B", "A", None) >>,
    << StateTransition("A", "B", "g"), StateTransition("A", "C", "g") >>,
    << StateTransition("A", "B", "g"), StateTransition("A", "C", None) >> }
BadTransitionLists == {
    << StateTransition(OtherX, "B", None) >>,
    << StateTransition("A", OtherX, None) >>,
    << StateTransition("A", "B", None), StateTransition("B", OtherX, None) >> }

\* What a _handle_<state> method does when it is invoked, as a function of
\* context.retry_count (rc) and of the number of invocations the attempt has
\* already seen (calls):
\*   succeed, fail, skip, timeout, retry: always return that StateResult
\*   raise:          always raises
\*   fail_first k:   FAILURE while rc < k, then SUCCESS
\*   raise_first k:  raises while rc < k, then SUCCESS
\*   fail_then_skip: FAILURE at rc = 0, then SKIP
\*   retry_once:     RETRY on the first invocation of an attempt, then SUCCESS
\*   fail_then_retry: FAILURE at rc = 0, RETRY on every invocation after
Handler(kind, k) == [kind |-> kind, k |-> k]
handler_outcome(h, rc, calls) ==
    CASE h.kind = "succeed" -> SUCCESS
      [] h.kind = "fail" -> FAILURE
      [] h.kind = "skip" -> SKIP
      [] h.kind = "timeout" -> TIMEOUT
      [] h.kind = "retry" -> RETRY
      [] h.kind = "raise" -> RAISE
      [] h.kind = "fail_first" -> IF rc < h.k THEN FAILURE ELSE SUCCESS
      [] h.kind = "raise_first" -> IF rc < h.k THEN RAISE ELSE SUCCESS
      [] h.kind = "fail_then_skip" -> IF rc = 0 THEN FAILURE ELSE SKIP
      [] h.kind = "retry_once" -> IF calls = 0 THEN RETRY ELSE SUCCESS
      [] h.kind = "fail_then_retry" -> IF rc = 0 THEN FAILURE ELSE RETRY

Succeed == Handler("succeed", 0)
Fail == Handler("fail", 0)
FailingKinds == {Fail, Handler("raise", 0), Handler("timeout", 0)}
PlainKinds ==
    {Succeed, Handler("skip", 0), Handler("retry_once", 0),
     Handler("fail_then_skip", 0)}
    \cup {Handler("fail_first", k) : k \in 1..MaxRetries}
    \cup {Handler("raise_first", 1)}
TimedKinds ==
    {Succeed, Fail, Handler("retry", 0), Handler("retry_once", 0),
     Handler("raise", 0)}

\* define_state_metadata() of a well-formed subclass: A is configured, B and
\* C keep the dataclass defaults
MetadataOf(mA) ==
    [s \in Steps |-> IF s = "A" THEN mA
                     ELSE StateMetadata(DefaultMaxRetries, NoValue, None)]

\* the handlers bound on the subclass: A does hA, B and C succeed; the
\* states in unbound have no _handle_ method
HandlersOf(hA, unbound) ==
    [s \in Steps \ unbound |-> IF s = "A" THEN hA ELSE Succeed]

\* A configuration: the subclass (states, metadata, transitions, initial,
\* handlers) and whether the application uses the watchdog operations.
Config(mA, ts, hA, unbound, wd) ==
    [states |-> Steps, metadata |-> MetadataOf(mA), transitions |-> ts,
     initial |-> "A", handlers |-> HandlersOf(hA, unbound),
     uses_watchdog |-> wd, revision |-> 0]

Failovers == {None, "A", "C", OtherX}

\* states without timeout: every retry limit, failover and transition list
UntimedConfigs ==
    { Config(StateMetadata(n, NoValue, f), ts, hA, {}, FALSE) :
        n \in 0..MaxRetries, f \in Failovers, ts \in TransitionLists,
        hA \in FailingKinds \cup PlainKinds }

\* state A with a timeout
TimedConfigs ==
    { Config(StateMetadata(n, Some(1), f), ts, hA, {}, FALSE) :
        n \in 0..MaxRetries, f \in {None, "C"},
        ts \in {<< >>, << StateTransition("A", "A", None) >>},
        hA \in TimedKinds }

\* a state without handler
UnboundConfigs ==
    { Config(StateMetadata(n, NoValue, f), ts, hA, unbound, FALSE) :
        n \in {0, 1}, f \in {None, "C"},
        ts \in {<< >>, << StateTransition("A", "B", None) >>},
        hA \in {Succeed, Fail}, unbound \in {{"A"}, {"B"}} }

\* applications that use the watchdog
WatchdogConfigs ==
    { Config(StateMetadata(n, NoValue, None), ts, hA, {}, TRUE) :
        n \in {0, 1},
        ts \in {<< >>, << StateTransition("A", "B", None) >>,
                << StateTransition("A", "A", None) >>},
        hA \in {Succeed, Fail} }

\* configurations with structural defects (and the same without)
DefectConfigs ==
    { [states |-> Steps,
       metadata |-> [s \in Steps \ missing |->
                        StateMetadata(DefaultMaxRetries, NoValue, None)],
       transitions |-> ts, initial |-> i,
       handlers |-> HandlersOf(Succeed, {}), uses_watchdog |-> FALSE,
       revision |-> 0] :
        missing \in {{}, {"C"}, {"A", "B"}}, i \in {"A", OtherX},
        ts \in BadTransitionLists \cup {<< >>} }

Configs ==
    UntimedConfigs \cup TimedConfigs \cup UnboundConfigs \cup WatchdogConfigs
    \cup DefectConfigs

\* the configuration after the caller has repaired its definitions
Repaired(c) ==
    [c EXCEPT !.metadata = [s \in Steps |->
                              DictGet(c.metadata, s,
                                  StateMetadata(DefaultMaxRetries, NoValue, None))],
              !.initial = "A",
              !.transitions = SelectSeq(c.transitions, LAMBDA t:
                                  t.from_state \in Steps /\ t.to_state \in Steps),
              !.revision = 1]

----------------------------------------------------------------------------
(* machine.py: helpers                                                     *)

\* initialize(): the O(1) lookup map, declaration order kept within a key
\* (variant: each list is built by prepending)
BuildTransitionMap_prepending(ts) ==
    [s \in {ts[i].from_state : i \in DOMAIN ts} |->
        LET q == SelectSeq(ts, LAMBDA t: t.from_state = s)
        IN [i \in 1..Len(q) |-> q[Len(q) + 1 - i]]]
BuildTransitionMap(ts) ==
    [s \in {ts[i].from_state : i \in DOMAIN ts} |->
        SelectSeq(ts, LAMBDA t: t.from_state = s)]

\* _validate(): "ok", or what the ValueError is about
\* (variant: to_state is not checked)
validate_from_state_only(sts, meta, cur, ts) ==
    IF \E s \in sts : s \notin DOMAIN meta THEN "no metadata"
    ELSE IF cur \notin sts THEN "initial state"
    ELSE IF \E i \in DOMAIN ts : ts[i].from_state \notin sts THEN "from_state"
    ELSE "ok"
\* the transitions are walked once, in list order; of each one from_state
\* is tested, then to_state
validate(sts, meta, cur, ts) ==
    LET bad == {i \in DOMAIN ts : ts[i].from_state \notin sts
                                    \/ ts[i].to_state \notin sts}
    IN
    IF \E s \in sts : s \notin DOMAIN meta THEN "no metadata"
    ELSE IF cur \notin sts THEN "initial state"
    ELSE IF bad # {}
    THEN LET first == CHOOSE i \in bad : \A j \in bad : i <= j
         IN IF ts[first].from_state \notin sts THEN "from_state"
            ELSE "to_state"
    ELSE "ok"

\* deque(maxlen=HistoryMaxLen).append
\* (variant: nothing is evicted)
deque_append_unbounded(h, e) == Append(h, e)
deque_append(h, e) ==
    IF Len(h) < HistoryMaxLen THEN Append(h, e) ELSE Append(Tail(h), e)

\* the outcomes of the guards of a transition list when they are called:
\* one per transition, "none" where the transition has no condition
GuardEvals(ts) ==
    { g \in [DOMAIN ts -> GuardOutcome \cup {"none"}] :
        \A i \in DOMAIN ts : (ts[i].condition = None) <=> (g[i] = "none") }

\* _get_next_state(): the first transition from s that can_transition
RECURSIVE first_passing(_, _, _)
first_passing(ts, g, i) ==
    IF i > Len(ts) THEN None
    ELSE IF can_transition(ts[i], g[i]) THEN ts[i].to_state
    ELSE first_passing(ts, g, i + 1)

\* (variant: the scan starts at the second transition)
get_next_state_from_second(tmap, s, g) ==
    first_passing(DictGet(tmap, s, << >>), g, 2)
get_next_state(tmap, s, g) == first_passing(DictGet(tmap, s, << >>), g, 1)

\* _check_watchdog(): "ok", "warn" (the warning is logged) or "raise"
\* (variant: a watchdog that was never enabled uses a threshold of 2)
check_watchdog_always_on(wt, last, warned, t) ==
    LET threshold == IF wt = NoValue THEN 2 ELSE wt[1] IN
    IF t - last >= threshold THEN "raise"
    ELSE IF 10 * (t - last) >= 8 * threshold /\ ~warned THEN "warn"
    ELSE "ok"
\* (variant: the abort needs the idle time to exceed the threshold)
check_watchdog_when_exceeded(wt, last, warned, t) ==
    IF wt = NoValue THEN "ok"
    ELSE IF t - last > wt[1] THEN "raise"
    ELSE IF 10 * (t - last) >= 8 * wt[1] /\ ~warned THEN "warn"
    ELSE "ok"
\* (variant: the watchdog warns but never aborts)
check_watchdog_never_aborts(wt, last, warned, t) ==
    IF wt = NoValue THEN "ok"
    ELSE IF 10 * (t - last) >= 8 * wt[1] /\ ~warned THEN "warn"
    ELSE "ok"
\* (variant: the warning is repeated at every check in the warning window)
check_watchdog_warning_repeated(wt, last, warned, t) ==
    IF wt = NoValue THEN "ok"
    ELSE IF t - last >= wt[1] THEN "raise"
    ELSE IF 10 * (t - last) >= 8 * wt[1] THEN "warn"
    ELSE "ok"
check_watchdog(wt, last, warned, t) ==
    IF wt = NoValue THEN "ok"
    ELSE IF t - last >= wt[1] THEN "raise"
    ELSE IF 10 * (t - last) >= 8 * wt[1] /\ ~warned THEN "warn"
    ELSE "ok"

\* Python's h[i:] for a list h and an integer i
slice_from(h, i) ==
    LET start == IF i < 0 THEN (IF Len(h) + i < 0 THEN 0 ELSE Len(h) + i)
                 ELSE (IF i > Len(h) THEN Len(h) ELSE i)
    IN SubSeq(h, start + 1, Len(h))

\* get_history(last_n): "history[-last_n:] if last_n is not None else history"
\* (variant: the limit is ignored)
get_history_unlimited(h, last_n) == h
get_history(h, last_n) ==
    IF last_n = NoValue THEN h ELSE slice_from(h, 0 - last_n[1])

\* run(): the test of the while loop
\* (variant: one iteration more)
loop_continues_inclusive(n) == n <= MAX_STATES_PER_RUN
loop_continues(n) == n < MAX_STATES_PER_RUN

\* _execute_state(): the inner loop invokes the handler again after RETRY
\* (variant: the break is never taken)
loop_again_never(o) == FALSE
loop_again_always(o) == TRUE
loop_again(o) == o = RETRY

\* _execute_state(): the results that count as a failed attempt
\* (variant: FAILURE is left out)
is_failed_attempt_without_timeout(res) == res \in {FAILURE, RETRY}
is_failed_attempt_without_failure(res) == res \in {RETRY, TIMEOUT}
is_failed_attempt(res) == res \in {FAILURE, RETRY, TIMEOUT}

\* _execute_state(): the retry decision of the disposition
\* (variant: one retry short)
retries_remain_inclusive(rc, meta) == rc <= meta.max_retries
retries_remain_one_short(rc, meta) == rc + 1 < meta.max_retries
retries_remain(rc, meta) == rc < meta.max_retries

\* _get_state_handler(): the bound method, or the AttributeError
\* (variant: a missing handler is replaced by one that fails)
get_state_handler_or_failing(s) ==
    IF s \in DOMAIN cfg.handlers THEN cfg.handlers[s] ELSE Handler("fail", 0)
get_state_handler(s) ==
    IF s \in DOMAIN cfg.handlers THEN cfg.handlers[s]
    ELSE Handler("AttributeError", 0)

\* _execute_state(): what stops the state before its first attempt
execute_state_error(s) ==
    IF s \notin DOMAIN state_metadata THEN "KeyError"
    ELSE IF get_state_handler(s).kind = "AttributeError" THEN "AttributeError"
    ELSE None

----------------------------------------------------------------------------
(* The visit log: one record per state the run loop executed.              *)

\* state: the state; first_retry: the retry index of its first attempt;
\* outcomes: what the handler invocations did, in order (the first MaxCalls
\* of each attempt); attempts: history entries appended; calls: invocations
\* logged in the attempt under way
NewVisit(s, rc) == [state |-> s, first_retry |-> rc, outcomes |-> << >>,
                    attempts |-> 0, calls |-> 0]
LogOutcome(v, o) ==
    IF v[Len(v)].calls < MaxCalls
    THEN [v EXCEPT ![Len(v)].outcomes = Append(@, o), ![Len(v)].calls = @ + 1]
    ELSE v
LogAttempt(v) ==
    [v EXCEPT ![Len(v)].attempts = @ + 1, ![Len(v)].calls = 0]
NoSelection == [consulted |-> FALSE, from |-> None, outcomes |-> << >>,
                next |-> None]
\* no StateMetadata has been constructed
NoBuilt == [called |-> FALSE, max_retries |-> 0, timeout |-> NoValue,
            outcome |-> "ok"]
\* no earlier engine was observed
NoPrevious == [taken |-> FALSE, status |-> "never", history |-> << >>,
               current |-> None]
\* get_history() was not the last operation called
NoReturn == [called |-> FALSE, last_n |-> NoValue, entries |-> << >>]

----------------------------------------------------------------------------
(* The engine after __init__.                                              *)

InitWith(configs) ==
    /\ cfg \in configs
    /\ now = 0
    /\ states = NoValue
    /\ state_metadata = EmptyDict
    /\ transitions = << >>
    /\ current_state = None
    /\ transition_map = EmptyDict
    /\ state_history = << >>
    /\ retry_counts = EmptyDict
    /\ initialized = FALSE
    /\ watchdog_timeout = NoValue
    /\ watchdog_last_activity = 0
    /\ watchdog_warned = FALSE
    /\ pc = "idle"
    /\ steps = 0
    /\ prev_state = None
    /\ exec_state = None
    /\ retry_count = 0
    /\ start_time = 0
    /\ result = FAILURE
    /\ raised = None
    /\ run_status = "never"
    /\ runs = 0
    /\ executed = << >>
    /\ selection = NoSelection
    /\ last_op = "init"
    /\ returned = NoReturn
    /\ built = NoBuilt
    /\ warnings = 0
    /\ previous = NoPrevious

Init == InitWith(Configs)

----------------------------------------------------------------------------
(* initialize()                                                            *)

\* (variant of initialize: without the early return)
initialize_again ==
    /\ states' = Some(cfg.states)
    /\ state_metadata' = cfg.metadata
    /\ transitions' = cfg.transitions
    /\ current_state' = cfg.initial
    /\ transition_map' = BuildTransitionMap(cfg.transitions)
    /\ initialized' = (validate(cfg.states, cfg.metadata, cfg.initial,
                                cfg.transitions) = "ok")

\* the body of initialize(); it raised ValueError iff initialized' is FALSE
initialize ==
    IF initialized
    THEN UNCHANGED <<config_fields, current_state, initialized>>
    ELSE /\ states' = Some(cfg.states)
         /\ state_metadata' = cfg.metadata
         /\ transitions' = cfg.transitions
         /\ current_state' = cfg.initial
         /\ transition_map' = BuildTransitionMap(cfg.transitions)
         /\ initialized' = (validate(cfg.states, cfg.metadata, cfg.initial,
                                     cfg.transitions) = "ok")

Initialize ==
    /\ pc = "idle"
    /\ initialize
    /\ raised' = IF initialized' THEN None ELSE "ValueError"
    /\ last_op' = "initialize"
    /\ returned' = NoReturn
    /\ UNCHANGED <<built, warnings, previous>>
    /\ UNCHANGED <<cfg, now, state_history, retry_counts, watchdog, local,
                   run_status, runs, executed, selection>>

\* the caller repairs its definitions after a failed initialize()
FixConfiguration ==
    /\ pc = "idle"
    /\ ~initialized
    /\ raised = "ValueError"
    /\ cfg.revision = 0
    /\ cfg' = Repaired(cfg)
    /\ last_op' = "configure"
    /\ returned' = NoReturn
    /\ UNCHANGED <<built, warnings, previous>>
    /\ UNCHANGED <<now, engine, local, raised, run_status, runs, executed,
                   selection>>

----------------------------------------------------------------------------
(* run()                                                                   *)

\* run(): "self._retry_counts.clear()"
\* (variant: the counters of the previous run are kept)
run_retry_counts_kept == retry_counts
run_retry_counts == EmptyDict

\* run() up to the while loop
Run ==
    /\ pc = "idle"
    /\ runs < MaxRuns
    /\ runs' = runs + 1
    /\ last_op' = "run"
    /\ returned' = NoReturn
    /\ UNCHANGED <<built, warnings, previous>>
    /\ executed' = << >>
    /\ selection' = NoSelection
    /\ IF ~initialized
       THEN initialize
       ELSE UNCHANGED <<config_fields, current_state, initialized>>
    /\ IF initialized'
       THEN /\ retry_counts' = run_retry_counts
            /\ steps' = 0
            /\ pc' = "loop"
            /\ raised' = None
            /\ run_status' = "running"
       ELSE /\ raised' = "ValueError"
            /\ run_status' = "raised"
            /\ UNCHANGED <<retry_counts, steps, pc>>
    /\ UNCHANGED <<cfg, now, state_history, watchdog, prev_state, attempt>>

\* the loop test, _check_watchdog() and _execute_state() up to the first
\* has_timed_out() of the attempt
LoopHead ==
    /\ pc = "loop"
    /\ LET wd == check_watchdog(watchdog_timeout, watchdog_last_activity,
                                watchdog_warned, now)
           err == execute_state_error(current_state)
       IN
       IF ~loop_continues(steps)
       THEN /\ pc' = "idle"
            /\ run_status' = "safety_limit"
            /\ UNCHANGED <<raised, watchdog_warned, prev_state, attempt,
                           executed, warnings>>
       ELSE IF wd = "raise"
       THEN /\ pc' = "idle"
            /\ run_status' = "raised"
            /\ raised' = "RuntimeError"
            /\ UNCHANGED <<watchdog_warned, prev_state, attempt, executed,
                           warnings>>
       ELSE /\ watchdog_warned' = (watchdog_warned \/ wd = "warn")
            /\ warnings' = IF wd = "warn" THEN warnings + 1 ELSE warnings
            /\ prev_state' = current_state
            /\ IF err = "KeyError"
               THEN /\ pc' = "idle"
                    /\ run_status' = "raised"
                    /\ raised' = err
                    /\ UNCHANGED <<attempt, executed>>
               ELSE /\ exec_state' = current_state
                    /\ retry_count' = DictGet(retry_counts, current_state, 0)
                    /\ start_time' = now
                    /\ result' = FAILURE
                    /\ IF err = "AttributeError"
                       THEN /\ pc' = "idle"
                            /\ run_status' = "raised"
                            /\ raised' = err
                            /\ UNCHANGED executed
                       ELSE /\ pc' = "check"
                            /\ executed' = Append(executed,
                                   NewVisit(current_state, retry_count'))
                            /\ UNCHANGED <<raised, run_status>>
    /\ UNCHANGED <<cfg, now, config_fields, current_state, state_history,
                   retry_counts, initialized, watchdog_timeout,
                   watchdog_last_activity, steps, runs, selection, last_op,
                   returned, built, previous>>

\* "while not context.has_timed_out(metadata.timeout)"
WhileCheck ==
    /\ pc = "check"
    /\ pc' = IF has_timed_out(start_time, now,
                              state_metadata[exec_state].timeout)
             THEN "post" ELSE "handler"
    /\ UNCHANGED <<cfg, now, engine, steps, prev_state, attempt, ghost>>

\* _execute_state() from the history append to its return (or to the first
\* has_timed_out() of the next attempt, when it recurses)
finish_attempt(res, err, visits) ==
    LET meta == state_metadata[exec_state]
        entry == StateHistoryEntry(exec_state, res, retry_count, err)
    IN
    /\ state_history' = deque_append(state_history, entry)
    /\ executed' = LogAttempt(visits)
    /\ IF is_failed_attempt(res) /\ retries_remain(retry_count, meta)
       THEN /\ retry_counts' = DictSet(retry_counts, exec_state, retry_count + 1)
            /\ retry_count' = DictGet(retry_counts', exec_state, 0)
            /\ start_time' = now
            /\ result' = FAILURE
            /\ pc' = "check"
            /\ UNCHANGED <<current_state, exec_state>>
       ELSE /\ IF is_failed_attempt(res) /\ meta.failover_state # None
               THEN /\ current_state' = meta.failover_state
                    /\ retry_counts' = DictSet(retry_counts, exec_state, 0)
               ELSE IF res = SUCCESS
               THEN /\ retry_counts' = DictSet(retry_counts, exec_state, 0)
                    /\ UNCHANGED current_state
               ELSE UNCHANGED <<current_state, retry_counts>>
            /\ result' = res
            /\ pc' = "select"
            /\ UNCHANGED <<exec_state, retry_count, start_time>>

\* "result = handler(context)": one invocation of the handler
InvokeHandler ==
    /\ pc = "handler"
    /\ LET calls == executed[Len(executed)].calls
           o == handler_outcome(get_state_handler(exec_state), retry_count, calls)
       IN
        /\ IF o = RAISE
           THEN finish_attempt(FAILURE, "exception", LogOutcome(executed, o))
           ELSE /\ result' = o
                /\ pc' = IF loop_again(o) THEN "check" ELSE "post"
                /\ executed' = LogOutcome(executed, o)
                /\ UNCHANGED <<current_state, state_history, retry_counts,
                               exec_state, retry_count, start_time>>
    /\ UNCHANGED <<cfg, now, config_fields, initialized, watchdog, steps,
                   prev_state, raised, run_status, runs, selection, last_op,
                   returned, built, warnings, previous>>

\* "if context.has_timed_out(metadata.timeout)" after the loop
PostCheck ==
    /\ pc = "post"
    /\ IF has_timed_out(start_time, now, state_metadata[exec_state].timeout)
       THEN finish_attempt(TIMEOUT, "timeout", executed)
       ELSE finish_attempt(result, None, executed)
    /\ UNCHANGED <<cfg, now, config_fields, initialized, watchdog, steps,
                   prev_state, raised, run_status, runs, selection, last_op,
                   returned, built, warnings, previous>>

\* run(): "if self._current_state != prev_state", the test for a failover
\* jump made by _execute_state()
\* (variant: every execution that did not end in SUCCESS counts as a jump)
state_changed_or_not_success(cur, prev) == cur # prev \/ result # SUCCESS
state_changed(cur, prev) == cur # prev

\* run() after _execute_state() returned
Select ==
    /\ pc = "select"
    /\ IF state_changed(current_state, prev_state)
       THEN /\ steps' = steps + 1
            /\ pc' = "loop"
            /\ selection' = NoSelection
            /\ UNCHANGED <<current_state, run_status>>
       ELSE \E g \in GuardEvals(DictGet(transition_map, current_state, << >>)) :
            LET next == get_next_state(transition_map, current_state, g) IN
            /\ selection' = [consulted |-> TRUE, from |-> current_state,
                             outcomes |-> g, next |-> next]
            /\ IF next = None
               THEN /\ pc' = "idle"
                    /\ run_status' = "complete"
                    /\ UNCHANGED <<current_state, steps>>
               ELSE /\ current_state' = next
                    /\ steps' = steps + 1
                    /\ pc' = "loop"
                    /\ UNCHANGED run_status
    /\ UNCHANGED <<cfg, now, config_fields, state_history, retry_counts,
                   initialized, watchdog, prev_state, attempt, raised, runs,
                   executed, last_op, returned, built, warnings, previous>>

----------------------------------------------------------------------------
(* reset(), the watchdog operations and the clock                          *)

\* reset(): the new current state and retry counters
\* (variant: the current state is left where the run stopped)
reset_current_state_kept == current_state
reset_current_state == cfg.initial
\* (variant: the retry counters survive reset())
reset_retry_counts_kept == retry_counts
reset_retry_counts == EmptyDict

Reset ==
    /\ pc = "idle"
    /\ current_state' = reset_current_state
    /\ retry_counts' = reset_retry_counts
    /\ raised' = None
    /\ last_op' = "reset"
    /\ returned' = NoReturn
    /\ UNCHANGED <<built, warnings, previous>>
    /\ UNCHANGED <<cfg, now, config_fields, state_history, initialized,
                   watchdog, local, run_status, runs, executed, selection>>

\* get_history(), called between runs with no limit or a limit >= 0, by
\* the applications that read the history
HistoryLimits == {NoValue} \cup {Some(n) : n \in 0..(HistoryMaxLen + 1)}
HistoryReaders ==
    { c \in UntimedConfigs :
        /\ c.handlers["A"] \in {Succeed, Fail}
        /\ c.metadata["A"].failover_state \in {None, "C"} }

GetHistory ==
    /\ pc = "idle"
    /\ cfg \in HistoryReaders
    /\ \E last_n \in HistoryLimits :
        returned' = [called |-> TRUE, last_n |-> last_n,
                     entries |-> get_history(state_history, last_n)]
    /\ last_op' = "get_history"
    /\ UNCHANGED <<cfg, now, engine, local, raised, run_status, runs,
                   executed, selection, built, warnings,
                   previous>>

WatchdogThresholds == {2}

\* enable_watchdog(timeout_seconds)
enable_watchdog(timeout_seconds) ==
    /\ watchdog_timeout' = Some(timeout_seconds)
    /\ watchdog_last_activity' = now
    /\ watchdog_warned' = FALSE

EnableWatchdog ==
    /\ pc = "idle"
    /\ cfg.uses_watchdog
    /\ \E t \in WatchdogThresholds : enable_watchdog(t)
    /\ raised' = None
    /\ last_op' = "enable_watchdog"
    /\ returned' = NoReturn
    /\ warnings' = 0
    /\ UNCHANGED <<built, previous>>
    /\ UNCHANGED <<cfg, now, config_fields, current_state, state_history,
                   retry_counts, initialized, local, run_status, runs,
                   executed, selection>>

\* record_activity(), called between runs or by a handler
RecordActivity ==
    /\ pc \in {"idle", "handler"}
    /\ cfg.uses_watchdog
    /\ watchdog_last_activity' = now
    /\ watchdog_warned' = FALSE
    /\ warnings' = 0
    /\ UNCHANGED <<cfg, now, config_fields, current_state, state_history,
                   retry_counts, initialized, watchdog_timeout, local, raised,
                   run_status, runs, executed, selection, last_op, returned,
                   built, previous>>

\* time passes
Tick ==
    /\ now < MaxTime
    /\ now' = now + 1
    /\ UNCHANGED <<cfg, engine, local, ghost>>

Next ==
    \/ Initialize
    \/ FixConfiguration
    \/ Run
    \/ LoopHead
    \/ WhileCheck
    \/ InvokeHandler
    \/ PostCheck
    \/ Select
    \/ Reset
    \/ GetHistory
    \/ EnableWatchdog
    \/ RecordActivity
    \/ Tick

Spec == Init /\ [][Next]_vars

----------------------------------------------------------------------------
(* The run loop on its own, with the progress the single thread of control *)
(* and the wall clock guarantee.                                           *)

\* subclasses whose state A may answer RETRY for ever, from its first
\* invocation or after a first FAILURE, with and without timeout, on
\* transition cycles and on cycles through a failover jump (A fails over
\* to B and B leads back to A)
LiveConfigs ==
    { Config(StateMetadata(n, to, f), ts, hA, {}, FALSE) :
        n \in {0, 1}, to \in {NoValue, Some(1)}, f \in {None, "A", "B", "C"},
        ts \in {<< >>, << StateTransition("A", "A", None) >>,
                << StateTransition("B", "A", None) >>,
                << StateTransition("A", "B", None),
                   StateTransition("B", "A", None) >>},
        hA \in {Succeed, Fail, Handler("retry", 0), Handler("retry_once", 0),
                Handler("fail_then_retry", 0)} }

\* time passes once the clock of the exploration stands at MaxTime: the
\* attempt under way has been running one unit longer.  Only the elapsed
\* time of an attempt that has not timed out yet is observable.
TickLate ==
    /\ now = MaxTime
    /\ pc \in {"check", "handler", "post"}
    /\ state_metadata[exec_state].timeout # NoValue
    /\ ~has_timed_out(start_time, now, state_metadata[exec_state].timeout)
    /\ start_time' = start_time - 1
    /\ UNCHANGED <<cfg, now, engine, pc, steps, prev_state, exec_state,
                   retry_count, result, ghost>>

\* the thread driving run() takes its next step
RunStep == LoopHead \/ WhileCheck \/ InvokeHandler \/ PostCheck \/ Select

LiveNext ==
    \/ Run
    \/ LoopHead
    \/ WhileCheck
    \/ InvokeHandler
    \/ PostCheck
    \/ Select
    \/ Tick
    \/ TickLate

LiveSpec ==
    /\ InitWith(LiveConfigs)
    /\ [][LiveNext]_vars
    /\ WF_vars(RunStep)
    /\ WF_vars(Tick \/ TickLate)

----------------------------------------------------------------------------
(* The watchdog with a threshold whose warning window holds a clock value: *)
(* threshold 5, warning at an idle time of 4, on a clock long enough for   *)
(* two idle episodes.                                                      *)

WarnThresholds == {5}
WarnConfigs == { c \in WatchdogConfigs : c.metadata["A"].max_retries = 0 }

EnableWatchdogLong ==
    /\ pc = "idle"
    /\ cfg.uses_watchdog
    /\ \E t \in WarnThresholds : enable_watchdog(t)
    /\ raised' = None
    /\ last_op' = "enable_watchdog"
    /\ returned' = NoReturn
    /\ warnings' = 0
    /\ UNCHANGED <<built, previous>>
    /\ UNCHANGED <<cfg, now, config_fields, current_state, state_history,
                   retry_counts, initialized, local, run_status, runs,
                   executed, selection>>

WarnTick ==
    /\ now < WarnMaxTime
    /\ now' = now + 1
    /\ UNCHANGED <<cfg, engine, local, ghost>>

WarnNext ==
    \/ Run
    \/ LoopHead
    \/ WhileCheck
    \/ InvokeHandler
    \/ PostCheck
    \/ Select
    \/ EnableWatchdogLong
    \/ RecordActivity
    \/ WarnTick

WarnSpec == InitWith(WarnConfigs) /\ [][WarnNext]_vars

----------------------------------------------------------------------------
(* Two engines of the same class, one after the other: when the first      *)
(* run() of an engine has ended, what the caller can read from it is kept  *)
(* and a new engine of the class is constructed.                           *)

PairTransitionLists == {
    << StateTransition("A", "A", "g") >>,
    << StateTransition("A", "B", None), StateTransition("B", "A", "g") >>,
    << StateTransition("A", "B", "g"), StateTransition("A", "A", "g") >> }
PairConfigs ==
    { Config(StateMetadata(0, NoValue, None), ts, hA, {}, FALSE) :
        ts \in PairTransitionLists, hA \in {Succeed, Fail} }

\* get_history() and get_current_state() of the engine, then __init__ of
\* the next one
NewEngine ==
    /\ pc = "idle"
    /\ last_op = "run"
    /\ runs = 1
    /\ run_status \in {"complete", "safety_limit"}
    /\ ~previous.taken
    /\ previous' = [taken |-> TRUE, status |-> run_status,
                    history |-> get_history(state_history, NoValue),
                    current |-> current_state]
    /\ states' = NoValue
    /\ state_metadata' = EmptyDict
    /\ transitions' = << >>
    /\ current_state' = None
    /\ transition_map' = EmptyDict
    /\ state_history' = << >>
    /\ retry_counts' = EmptyDict
    /\ initialized' = FALSE
    /\ watchdog_timeout' = NoValue
    /\ watchdog_last_activity' = now
    /\ watchdog_warned' = FALSE
    /\ steps' = 0
    /\ prev_state' = None
    /\ exec_state' = None
    /\ retry_count' = 0
    /\ start_time' = 0
    /\ result' = FAILURE
    /\ raised' = None
    /\ run_status' = "never"
    /\ runs' = 0
    /\ executed' = << >>
    /\ selection' = NoSelection
    /\ last_op' = "init"
    /\ UNCHANGED <<cfg, now, pc, returned, built, warnings>>

PairNext ==
    \/ Run
    \/ LoopHead
    \/ WhileCheck
    \/ InvokeHandler
    \/ PostCheck
    \/ Select
    \/ NewEngine
    \/ Tick

PairSpec == InitWith(PairConfigs) /\ [][PairNext]_vars

----------------------------------------------------------------------------
(* The application constructs a StateMetadata, returns it from             *)
(* define_state_metadata() when the construction succeeded, and runs the   *)
(* engine.                                                                 *)

\* the arguments tried: max_retries and timeout, valid and invalid
MetadataRetries == (0 - 2)..MaxRetries
MetadataTimeouts == {NoValue} \cup {Some(t) : t \in (0 - 1)..2}

TypesConfigs ==
    { Config(StateMetadata(DefaultMaxRetries, NoValue, None), ts, hA, {}, FALSE) :
        ts \in {<< >>, << StateTransition("A", "A", None) >>},
        hA \in {Succeed, Fail, Handler("retry_once", 0)} }

\* StateMetadata(name, max_retries=.., timeout=..), once per behaviour
Construct ==
    /\ pc = "idle"
    /\ ~initialized
    /\ runs = 0
    /\ ~built.called
    /\ \E mr \in MetadataRetries, to \in MetadataTimeouts :
        built' = [called |-> TRUE, max_retries |-> mr, timeout |-> to,
                  outcome |-> post_init(mr, to)]
    /\ UNCHANGED <<cfg, now, engine, local, raised, run_status, runs,
                   executed, selection, last_op, returned, warnings,
                   previous>>

\* define_state_metadata() returns the constructed object for state A
UseMetadata ==
    /\ pc = "idle"
    /\ ~initialized
    /\ runs = 0
    /\ built.called
    /\ built.outcome = "ok"
    /\ cfg' = [cfg EXCEPT !.metadata =
                 MetadataOf(StateMetadata(built.max_retries, built.timeout, None))]
    /\ UNCHANGED <<now, engine, local, ghost>>

TypesNext ==
    \/ Construct
    \/ UseMetadata
    \/ Run
    \/ LoopHead
    \/ WhileCheck
    \/ InvokeHandler
    \/ PostCheck
    \/ Select
    \/ Tick

TypesSpec == InitWith(TypesConfigs) /\ [][TypesNext]_vars

----------------------------------------------------------------------------
(* Vocabulary of the properties.                                           *)

LastN(h, n) == IF Len(h) <= n THEN h ELSE SubSeq(h, Len(h) - n + 1, Len(h))
Min(a, b) == IF a < b THEN a ELSE b

\* the configuration passes the structural rules of section 4.1
WellFormed(c) ==
    /\ \A s \in c.states : s \in DOMAIN c.metadata
    /\ c.initial \in c.states
    /\ \A i \in DOMAIN c.transitions :
        {c.transitions[i].from_state, c.transitions[i].to_state} \subseteq c.states

\* run() has returned or raised and nothing was called since
RunJustEnded == pc = "idle" /\ last_op = "run"

\* the execution of the last state of the visit log is over
LastVisit == executed[Len(executed)]
VisitJustEnded == pc = "select" /\ Len(executed) > 0

\* every attempt of the visit invoked the handler at least once
EveryAttemptInvoked(v) == Len(v.outcomes) >= v.attempts

\* the states of a chain S1 -> S2 -> ... -> Sk given by a transition list
ChainStates(c) ==
    << c.initial >> \o [i \in DOMAIN c.transitions |-> c.transitions[i].to_state]
IsLinearChain(c) ==
    /\ WellFormed(c)
    /\ \A i \in DOMAIN c.transitions :
        /\ c.transitions[i].condition = None
        /\ c.transitions[i].from_state = ChainStates(c)[i]
    /\ Cardinality({ChainStates(c)[i] : i \in DOMAIN ChainStates(c)})
          = Len(ChainStates(c))
AllHandlersSucceed(c) ==
    \A i \in DOMAIN ChainStates(c) :
        /\ ChainStates(c)[i] \in DOMAIN c.handlers
        /\ c.handlers[ChainStates(c)[i]] = Succeed
NoTimeoutOnChain(c) ==
    \A i \in DOMAIN ChainStates(c) :
        c.metadata[ChainStates(c)[i]].timeout = NoValue

\* the run executed the chain: each state once, in order, SUCCESS recorded
ChainRan(c) ==
    LET chain == ChainStates(c)
        expected == [i \in DOMAIN chain |->
                        StateHistoryEntry(chain[i], SUCCESS, 0, None)]
    IN
    /\ run_status = "complete"
    /\ raised = None
    /\ current_state = chain[Len(chain)]
    /\ Len(executed) = Len(chain)
    /\ \A i \in DOMAIN chain :
        /\ executed[i].state = chain[i]
        /\ executed[i].outcomes = << SUCCESS >>
        /\ executed[i].attempts = 1
    /\ state_history = LastN(expected, HistoryMaxLen)

FirstRunOfChainEnded ==
    /\ IsLinearChain(cfg)
    /\ AllHandlersSucceed(cfg)
    /\ runs = 1
    /\ RunJustEnded

----------------------------------------------------------------------------
(* C1: for every linear chain of unguarded transitions S1 -> ... -> Sk    *)
(* from the initial state whose handlers all return SUCCESS, a first run() *)
(* executes S1..Sk once each in order, appends k SUCCESS entries in that   *)
(* order and halts with current_state = Sk.                                *)

\* C1 as stated: for every such chain.  A run the watchdog aborted is not
\* held against the statement, nor is one with an attempt that ended before
\* its handler was invoked (no handler returned anything then).
C1_LinearChainAsStated ==
    ( /\ FirstRunOfChainEnded
      /\ raised # "RuntimeError"
      /\ \A i \in DOMAIN executed : EveryAttemptInvoked(executed[i]) )
    => ChainRan(cfg)

\* C1, amended: the same for chains of at most MAX_STATES_PER_RUN states
\* none of which has a timeout, in a run the watchdog does not abort
C1_LinearChain ==
    ( /\ FirstRunOfChainEnded
      /\ Len(ChainStates(cfg)) <= MAX_STATES_PER_RUN
      /\ NoTimeoutOnChain(cfg)
      /\ raised # "RuntimeError" )
    => ChainRan(cfg)

C1_Witness ==
    /\ FirstRunOfChainEnded
    /\ Len(ChainStates(cfg)) = MAX_STATES_PER_RUN
    /\ ChainRan(cfg)

----------------------------------------------------------------------------
(* C2: a state S with max_retries = n whose handler returns FAILURE on its *)
(* first k <= n invocations and SUCCESS on the next is, in a fresh run(),  *)
(* invoked exactly k+1 times; the history gets FAILURE x k then SUCCESS    *)
(* with retry indices 0..k, and the retry counter of S ends at 0.          *)

\* the handler of s fails its first k invocations of a fresh run and then
\* succeeds: it is fail_first k, or succeed (k = 0)
FailsFirst(c, s, k) ==
    /\ s \in DOMAIN c.handlers
    /\ \/ c.handlers[s] = Handler("fail_first", k)
       \/ k = 0 /\ c.handlers[s] = Succeed

\* the history entries of k failed attempts followed by a successful one
FailuresThenSuccess(s, k) ==
    [i \in 1..(k + 1) |->
        StateHistoryEntry(s, IF i <= k THEN FAILURE ELSE SUCCESS, i - 1, None)]

\* the first state a run() executes has just been executed
FirstVisitJustEnded == VisitJustEnded /\ Len(executed) = 1

RetriedUntilSuccess(s, k) ==
    /\ executed[1].outcomes = [i \in 1..(k + 1) |->
                                  IF i <= k THEN FAILURE ELSE SUCCESS]
    /\ executed[1].attempts = k + 1
    /\ LastN(state_history, k + 1)
          = LastN(FailuresThenSuccess(s, k), HistoryMaxLen)
    /\ DictGet(retry_counts, s, 0) = 0
    /\ result = SUCCESS

\* C2 as stated: for every state S (an attempt that ended before its
\* handler was invoked is not held against the statement)
C2_RetryThenSucceedAsStated ==
    \A k \in 0..MaxRetries :
        ( /\ FirstVisitJustEnded
          /\ EveryAttemptInvoked(executed[1])
          /\ FailsFirst(cfg, executed[1].state, k)
          /\ k <= state_metadata[executed[1].state].max_retries )
        => RetriedUntilSuccess(executed[1].state, k)

\* C2, amended: for every state S that has no timeout
C2_RetryThenSucceed ==
    \A k \in 0..MaxRetries :
        ( /\ FirstVisitJustEnded
          /\ FailsFirst(cfg, executed[1].state, k)
          /\ k <= state_metadata[executed[1].state].max_retries
          /\ state_metadata[executed[1].state].timeout = NoValue )
        => RetriedUntilSuccess(executed[1].state, k)

C2_Witness ==
    /\ FirstVisitJustEnded
    /\ FailsFirst(cfg, executed[1].state, MaxRetries)
    /\ state_metadata[executed[1].state].max_retries = MaxRetries
    /\ RetriedUntilSuccess(executed[1].state, MaxRetries)

----------------------------------------------------------------------------
(* C3: when the handler of a state S with max_retries = n and failover     *)
(* state F always fails, executing S invokes the handler exactly n+1       *)
(* times, then current_state is F and the retry counter of S is 0; the     *)
(* jump uses one loop iteration and the transitions of S are not consulted *)
(* in that pass.                                                           *)

\* the run loop has dealt with the last executed state: the state was
\* executed and the loop went through its failover test and selection
PassJustEnded ==
    /\ pc \in {"loop", "idle"}
    /\ last_op = "run"
    /\ Len(executed) > 0
    /\ run_status \in {"running", "complete"}

C3_FailoverJump ==
    ( /\ PassJustEnded
      /\ get_state_handler(LastVisit.state) = Fail
      /\ state_metadata[LastVisit.state].failover_state # None )
    => /\ LastVisit.outcomes =
              [i \in 1..(state_metadata[LastVisit.state].max_retries + 1)
                  |-> FAILURE]
       /\ DictGet(retry_counts, LastVisit.state, 0) = 0
       /\ current_state = state_metadata[LastVisit.state].failover_state
       /\ ~selection.consulted
       /\ steps = Len(executed)
       /\ pc = "loop"

----------------------------------------------------------------------------
(* C4: next-state selection returns the to_state of the first transition   *)
(* out of S, in declaration order, whose guard is absent or evaluates to   *)
(* true; a guard that raises counts as false and is not propagated; when   *)
(* no transition of S passes, selection yields none and run() ends         *)
(* normally with current_state still S.                                    *)

\* the transitions out of s in the order define_transitions() declared them
DeclaredFrom(s) == SelectSeq(transitions, LAMBDA t : t.from_state = s)

\* transition i of ts passes under the guard outcomes g
Passes(ts, g, i) == ts[i].condition = None \/ g[i] = "true"

FirstPassingChosen(sel) ==
    LET ts == DeclaredFrom(sel.from) IN
    /\ DOMAIN sel.outcomes = DOMAIN ts
    /\ IF \E i \in DOMAIN ts : Passes(ts, sel.outcomes, i)
       THEN \E i \in DOMAIN ts :
               /\ Passes(ts, sel.outcomes, i)
               /\ \A j \in 1..(i - 1) : ~Passes(ts, sel.outcomes, j)
               /\ sel.next = ts[i].to_state
       ELSE sel.next = None

\* the step in which run() selects among the transitions of current_state
SelectionStep ==
    pc = "select" /\ pc' # "select" /\ current_state = prev_state

C4_FirstPassingTransition ==
    /\ [](selection.consulted => FirstPassingChosen(selection))
    /\ [][SelectionStep =>
            /\ selection'.consulted
            /\ selection'.from = current_state
            /\ raised' = raised
            /\ IF selection'.next = None
               THEN /\ pc' = "idle"
                    /\ run_status' = "complete"
                    /\ current_state' = current_state
               ELSE /\ pc' = "loop"
                    /\ current_state' = selection'.next]_vars

\* a raising guard and a false guard were passed over for a later transition
C4_Witness ==
    /\ selection.consulted
    /\ Len(selection.outcomes) = 2
    /\ selection.outcomes[1] = "raise"
    /\ selection.next = "C"
    /\ current_state = "C"

----------------------------------------------------------------------------
(* C5: after any sequence of operations, reset() leaves current_state at   *)
(* the configured initial state and every retry counter at 0.              *)

C5_ResetRestores ==
    last_op = "reset" =>
        /\ current_state = cfg.initial
        /\ \A s \in Steps \cup {OtherX} : DictGet(retry_counts, s, 0) = 0

\* reset() was called after a run that stopped at the iteration cap away
\* from the initial state
C5_Witness ==
    /\ last_op = "reset"
    /\ run_status = "safety_limit"
    /\ Len(executed) > 0
    /\ LastVisit.state # cfg.initial
    /\ current_state = cfg.initial

----------------------------------------------------------------------------
(* C6: once initialize() has succeeded, every later initialize() call      *)
(* leaves all engine state unchanged, also after run() has moved           *)
(* current_state away from the initial state.                              *)

C6_InitializeIdempotent ==
    [][(Initialize /\ initialized) => UNCHANGED <<engine, local>>]_vars

\* initialize() was called after a run that ended away from the initial
\* state, and the current state is still where the run ended
C6_Witness ==
    /\ last_op = "initialize"
    /\ initialized
    /\ run_status = "complete"
    /\ current_state # cfg.initial
    /\ Len(state_history) > 0

----------------------------------------------------------------------------
(* C7: initialize() fails with a configuration error iff a declared state  *)
(* has no metadata, or the initial state is undeclared, or a transition    *)
(* names an undeclared from_state or to_state; after the failure the       *)
(* engine is not initialized and initialize() on the repaired              *)
(* configuration succeeds; a successful initialize() marks the engine      *)
(* initialized with current_state the initial state.                       *)

C7_InitializeValidates ==
    [][(Initialize /\ ~initialized) =>
          /\ (raised' = "ValueError") <=> ~WellFormed(cfg)
          /\ initialized' <=> WellFormed(cfg)
          /\ initialized' => current_state' = cfg.initial]_vars

\* initialize() succeeded on a configuration repaired after a failure
C7_Witness ==
    /\ last_op = "initialize"
    /\ initialized
    /\ cfg.revision = 1
    /\ current_state = cfg.initial

----------------------------------------------------------------------------
(* C8: when the run loop reaches a state without handler, run() fails at   *)
(* that execution: no history entry for the state, its retry counter       *)
(* unchanged, no retry or failover, the earlier entries kept; a state      *)
(* without handler that is not reached causes no failure.                  *)

\* the step in which the run loop starts to execute current_state
ExecutionStarts ==
    /\ pc = "loop"
    /\ pc' # "loop"
    /\ steps < MAX_STATES_PER_RUN
    /\ check_watchdog(watchdog_timeout, watchdog_last_activity,
                      watchdog_warned, now) # "raise"

C8_MissingHandlerIsFatal ==
    /\ [][(ExecutionStarts /\ current_state \notin DOMAIN cfg.handlers) =>
            /\ pc' = "idle"
            /\ run_status' = "raised"
            /\ raised' \in {"AttributeError", "KeyError"}
            /\ UNCHANGED <<state_history, retry_counts, current_state>>]_vars
    /\ [](\A i \in DOMAIN state_history :
             state_history[i].state \in DOMAIN cfg.handlers)
    /\ []((RunJustEnded /\ raised = "AttributeError") =>
             current_state \notin DOMAIN cfg.handlers)

\* the run failed at a state without handler after it had executed another
C8_Witness ==
    /\ RunJustEnded
    /\ raised = "AttributeError"
    /\ current_state = "B"
    /\ Len(state_history) > 0
    /\ state_history[Len(state_history)].state = "A"

----------------------------------------------------------------------------
(* C9: an error raised inside a handler invocation does not leave run():   *)
(* the attempt is recorded as one FAILURE entry carrying the error's       *)
(* message and is then treated as a returned FAILURE: re-attempt while the *)
(* retry index is below max_retries, else failover if configured, else     *)
(* ordinary transition selection.                                          *)

\* the step in which the handler is invoked and raises
HandlerRaises ==
    /\ pc = "handler"
    /\ pc' # "handler"
    /\ handler_outcome(get_state_handler(exec_state), retry_count,
                       LastVisit.calls) = RAISE

C9_HandlerFaultIsFailure ==
    [][HandlerRaises =>
        LET meta == state_metadata[exec_state]
            entry == StateHistoryEntry(exec_state, FAILURE, retry_count,
                                       "exception")
        IN
        /\ state_history' = LastN(Append(state_history, entry), HistoryMaxLen)
        /\ raised' = raised
        /\ run_status' = "running"
        /\ IF retry_count < meta.max_retries
           THEN /\ pc' = "check"
                /\ retry_count' = retry_count + 1
                /\ DictGet(retry_counts', exec_state, 0) = retry_count + 1
                /\ current_state' = current_state
           ELSE IF meta.failover_state # None
           THEN /\ pc' = "select"
                /\ current_state' = meta.failover_state
                /\ DictGet(retry_counts', exec_state, 0) = 0
           ELSE /\ pc' = "select"
                /\ current_state' = current_state
                /\ retry_counts' = retry_counts]_vars

\* a handler raised, the attempt was recorded and the state is re-attempted
C9_Witness ==
    /\ pc = "check"
    /\ retry_count = 1
    /\ Len(state_history) > 0
    /\ state_history[Len(state_history)] =
          StateHistoryEntry(exec_state, FAILURE, 0, "exception")

----------------------------------------------------------------------------
(* C10: for a state S with a timeout and max_retries = n whose handler     *)
(* returns RETRY on every invocation, each attempt is recorded as TIMEOUT, *)
(* and the execution of S produces n+1 history entries, the last one       *)
(* TIMEOUT.                                                                *)

C10_RetryUntilTimeout ==
    ( /\ VisitJustEnded
      /\ get_state_handler(LastVisit.state) = Handler("retry", 0)
      /\ state_metadata[LastVisit.state].timeout # NoValue )
    => /\ LastVisit.attempts = state_metadata[LastVisit.state].max_retries + 1
       /\ \A i \in DOMAIN state_history :
            (i > Len(state_history) - LastVisit.attempts) =>
                /\ state_history[i].state = LastVisit.state
                /\ state_history[i].result = TIMEOUT

----------------------------------------------------------------------------
(* C11: with the watchdog enabled with threshold T, a run-loop iteration   *)
(* that starts when the time since the last recorded activity              *)
(* (enable_watchdog or record_activity, whichever is later) is >= T aborts *)
(* run() with the idle error before the handler of the current state is    *)
(* invoked, leaving current_state and the history as they were; when the   *)
(* last activity is less than T ago the iteration does not abort.          *)

\* the step in which an iteration of the run loop starts (the loop test
\* passed) with the watchdog enabled
IterationStartsWatched ==
    /\ pc = "loop"
    /\ pc' # "loop"
    /\ steps < MAX_STATES_PER_RUN
    /\ watchdog_timeout # NoValue

C11_WatchdogAborts ==
    /\ [][IterationStartsWatched =>
            IF now - watchdog_last_activity >= watchdog_timeout[1]
            THEN /\ raised' = "RuntimeError"
                 /\ run_status' = "raised"
                 /\ pc' = "idle"
                 /\ UNCHANGED <<current_state, state_history, executed,
                                retry_counts>>
            ELSE raised' # "RuntimeError"]_vars
    \* the last activity is the time of the latest enable_watchdog() or
    \* record_activity() call
    /\ [][watchdog_last_activity' # watchdog_last_activity =>
            /\ watchdog_last_activity' = now
            /\ (pc \in {"idle", "handler"} /\ UNCHANGED pc)]_vars

\* the watchdog aborted a run between the executions of two states
C11_Witness ==
    /\ RunJustEnded
    /\ raised = "RuntimeError"
    /\ watchdog_timeout # NoValue
    /\ current_state = "B"
    /\ Len(state_history) > 0
    /\ Len(executed) = 1

----------------------------------------------------------------------------
(* C12: a run() call executes at most MAX_STATES_PER_RUN states at the top *)
(* level; at the cap run() returns without raising; the safety limit is    *)
(* reported iff the loop ended because of the cap and not because no       *)
(* transition applied.                                                     *)

\* run() returned (it did not raise) and nothing was called since
RunReturned == RunJustEnded /\ run_status \in {"complete", "safety_limit"}

C12_IterationCap ==
    /\ Len(executed) <= MAX_STATES_PER_RUN
    /\ (pc # "idle" => steps <= MAX_STATES_PER_RUN)
    /\ RunReturned =>
        /\ raised = None
        /\ (run_status = "safety_limit") <=> (steps = MAX_STATES_PER_RUN)
        /\ (run_status = "safety_limit") <=>
              ~(selection.consulted /\ selection.next = None)
        /\ (run_status = "safety_limit") => Len(executed) = MAX_STATES_PER_RUN

\* a transition cycle was stopped by the cap
C12_Witness ==
    /\ RunReturned
    /\ run_status = "safety_limit"
    /\ cfg.transitions = << StateTransition("A", "A", None) >>
    /\ Len(executed) = MAX_STATES_PER_RUN

----------------------------------------------------------------------------
(* C13: every run() call eventually returns or raises, for every valid     *)
(* configuration, cycles of transitions or failover jumps included,        *)
(* provided every handler invocation and guard evaluation returns.         *)

\* an attempt on a state without timeout is under way and its handler
\* last returned RETRY
RetryingUntimed ==
    /\ pc \in {"check", "handler"}
    /\ result = RETRY
    /\ state_metadata[exec_state].timeout = NoValue

\* C13 as stated
C13_RunTerminatesAsStated == (pc # "idle") ~> (pc = "idle")

\* C13, amended: provided also that in no attempt on a state without
\* timeout the handler goes on returning RETRY for ever
C13_RunTerminates ==
    (<>[]RetryingUntimed) \/ ((pc # "idle") ~> (pc = "idle"))

\* a run over a cycle through a failover jump has returned at the
\* iteration cap: A failed, answered RETRY until its timeout, failed over
\* to B, and B led back to A
C13_Witness ==
    /\ RunReturned
    /\ cfg.handlers["A"] = Handler("fail_then_retry", 0)
    /\ cfg.metadata["A"].timeout # NoValue
    /\ cfg.metadata["A"].max_retries = 1
    /\ cfg.metadata["A"].failover_state = "B"
    /\ cfg.transitions = << StateTransition("B", "A", None) >>
    /\ run_status = "safety_limit"

----------------------------------------------------------------------------
(* C14: the history never holds more than its capacity (100 in the code,   *)
(* HistoryMaxLen here); an append to a full history evicts exactly the     *)
(* oldest entry; the history changes only by appending the newest attempt  *)
(* at the end and evicting from the front, so the surviving entries keep   *)
(* their order and content across run(), reset(), initialize() and         *)
(* get_history().                                                          *)

C14_BoundedHistory ==
    /\ [](Len(state_history) <= HistoryMaxLen)
    /\ [][state_history' # state_history =>
            LET newest == state_history'[Len(state_history')] IN
            /\ pc \in {"handler", "post"}
            /\ Len(state_history') > 0
            /\ newest.state = exec_state
            /\ newest.retry_count = retry_count
            /\ IF Len(state_history) < HistoryMaxLen
               THEN state_history' = Append(state_history, newest)
               ELSE state_history' = Append(Tail(state_history), newest)]_vars
    /\ [][pc = "idle" => UNCHANGED state_history]_vars

\* the history is full and entries of the run under way have been evicted
C14_Witness ==
    /\ pc = "select"
    /\ runs = 1
    /\ Len(executed) = 2
    /\ executed[1].attempts + executed[2].attempts > HistoryMaxLen
    /\ Len(state_history) = HistoryMaxLen

----------------------------------------------------------------------------
(* C15: for every history H and every n >= 0, get_history(last_n = n)      *)
(* returns exactly the min(n, |H|) most recent entries of H in their       *)
(* order; get_history() without limit returns all of H; the history is not *)
(* changed by either call.                                                 *)

C15_GetHistoryLastN ==
    returned.called =>
        IF returned.last_n = NoValue
        THEN returned.entries = state_history
        ELSE /\ Len(returned.entries) = Min(returned.last_n[1], Len(state_history))
             /\ returned.entries = LastN(state_history, returned.last_n[1])

----------------------------------------------------------------------------
(* C16: run() on an engine that is not initialized performs initialize()   *)
(* first; when validation fails it raises the same configuration error     *)
(* and executes no state; every run() call starts with all retry counters  *)
(* cleared, so the first attempt of the first state it executes has retry  *)
(* index 0 whatever a previous run left behind.                            *)

\* the step in which run() is called
RunCalled == pc = "idle" /\ runs' = runs + 1

C16_RunInitializesAndClears ==
    /\ [][RunCalled =>
            /\ (~initialized /\ ~WellFormed(cfg)) =>
                  /\ raised' = "ValueError"
                  /\ ~initialized'
                  /\ pc' = "idle"
                  /\ executed' = << >>
                  /\ UNCHANGED <<state_history, retry_counts>>
            /\ (~initialized /\ WellFormed(cfg)) =>
                  /\ initialized'
                  /\ current_state' = cfg.initial
                  /\ states' = Some(cfg.states)
                  /\ state_metadata' = cfg.metadata
                  /\ transitions' = cfg.transitions
            /\ initialized => UNCHANGED <<config_fields, current_state,
                                          initialized>>
            /\ initialized' =>
                  /\ pc' = "loop"
                  /\ raised' = None
                  /\ \A s \in Steps \cup {OtherX} :
                        DictGet(retry_counts', s, 0) = 0]_vars
    /\ [](Len(executed) > 0 => executed[1].first_retry = 0)
    /\ []((pc = "idle" /\ raised = "ValueError") =>
             (executed = << >> /\ ~initialized))

\* a second run() starts the state at retry index 0 although the first run
\* left its counter at max_retries
C16_Witness ==
    /\ runs = 2
    /\ pc = "check"
    /\ Len(executed) = 1
    /\ executed[1].first_retry = 0
    /\ executed[1].attempts = 0
    /\ cfg.handlers["A"] = Fail
    /\ cfg.metadata["A"].failover_state = None
    /\ Len(state_history) > 0
    /\ state_history[Len(state_history)] =
          StateHistoryEntry("A", FAILURE, cfg.metadata["A"].max_retries, None)
    /\ cfg.metadata["A"].max_retries > 0
    /\ last_op = "run"

----------------------------------------------------------------------------
(* C17: constructing a StateMetadata with max_retries < 0, or with a       *)
(* timeout that is set and <= 0, raises an error at construction;          *)
(* max_retries = 0, an unset timeout and every positive timeout are        *)
(* accepted; so every metadata the engine runs with has max_retries >= 0   *)
(* and a timeout that is unset or > 0.                                     *)

C17_MetadataValidated ==
    /\ built.called =>
        ( (built.outcome = "ValueError") <=>
            \/ built.max_retries < 0
            \/ (built.timeout # NoValue /\ built.timeout[1] <= 0) )
    /\ \A s \in DOMAIN state_metadata :
        /\ state_metadata[s].max_retries >= 0
        /\ \/ state_metadata[s].timeout = NoValue
           \/ state_metadata[s].timeout[1] > 0

\* the engine ran with a metadata constructed with max_retries = 0 and a
\* positive timeout
C17_Witness ==
    /\ built.called
    /\ built.outcome = "ok"
    /\ built.max_retries = 0
    /\ built.timeout = Some(1)
    /\ initialized
    /\ state_metadata["A"] = StateMetadata(0, Some(1), None)
    /\ Len(state_history) > 0

----------------------------------------------------------------------------
(* C18: the watchdog is disabled unless enable_watchdog() has been called: *)
(* on an engine where it was never called no run() aborts with the idle    *)
(* error and no warning is issued, however long the engine has been idle.  *)

C18_WatchdogOffByDefault ==
    /\ [](watchdog_timeout = NoValue =>
            (raised # "RuntimeError" /\ ~watchdog_warned))
    \* the watchdog is enabled by enable_watchdog() only
    /\ [][(watchdog_timeout = NoValue /\ watchdog_timeout' # NoValue) =>
            last_op' = "enable_watchdog"]_vars
    /\ [](last_op = "enable_watchdog" => watchdog_timeout # NoValue)

\* a run of two states completed, idle for longer than any threshold, on an
\* engine whose watchdog was never enabled
C18_Witness ==
    /\ RunJustEnded
    /\ run_status = "complete"
    /\ watchdog_timeout = NoValue
    /\ now - watchdog_last_activity = MaxTime
    /\ Len(executed) = 2

----------------------------------------------------------------------------
(* C19: when initialize() fails validation, every engine variable a caller *)
(* can observe (current state, state set, metadata mapping, transition     *)
(* list, transition map, initialized flag) has the value it had before the *)
(* call.                                                                   *)

C19_FailedInitializeChangesNothing ==
    [][(Initialize /\ raised' = "ValueError") =>
          UNCHANGED <<current_state, states, state_metadata, transitions,
                      transition_map, initialized>>]_vars

----------------------------------------------------------------------------
(* C20: for every attempt on a state with a timeout, if the elapsed time   *)
(* of the attempt has reached the timeout at any point up to the end of    *)
(* the attempt, the attempt is recorded as TIMEOUT with the synthesized    *)
(* timeout message, whatever the last handler invocation produced.         *)

\* the step that ends an attempt: its history entry is appended
AttemptEnds ==
    /\ pc \in {"handler", "post"}
    /\ Len(executed') = Len(executed)
    /\ executed'[Len(executed')].attempts = LastVisit.attempts + 1

\* the clock only moves forward, so the elapsed time has reached the
\* timeout at some point of the attempt iff it has at its end
TimeoutReached ==
    /\ state_metadata[exec_state].timeout # NoValue
    /\ now - start_time >= state_metadata[exec_state].timeout[1]

RecordedAsTimeout ==
    state_history'[Len(state_history')] =
        StateHistoryEntry(exec_state, TIMEOUT, retry_count, "timeout")

\* C20 as stated
C20_TimeoutOverridesAsStated ==
    [][(AttemptEnds /\ TimeoutReached) => RecordedAsTimeout]_vars

\* C20, amended: unless the last handler invocation raised, in which case
\* the attempt is recorded as FAILURE with the message of the error
C20_TimeoutOverrides ==
    [][(AttemptEnds /\ TimeoutReached) =>
          IF HandlerRaises
          THEN state_history'[Len(state_history')] =
                  StateHistoryEntry(exec_state, FAILURE, retry_count, "exception")
          ELSE RecordedAsTimeout]_vars

\* a handler returned SUCCESS after the timeout and the attempt was recorded
\* as TIMEOUT
C20_Witness ==
    /\ Len(executed) > 0
    /\ LastVisit.attempts = 1
    /\ LastVisit.outcomes = << SUCCESS >>
    /\ Len(state_history) > 0
    /\ state_history[Len(state_history)] =
          StateHistoryEntry(LastVisit.state, TIMEOUT, 0, "timeout")

----------------------------------------------------------------------------
(* C21: an attempt whose final result is SKIP is handled like FAILURE for  *)
(* retry and failover: with its retry index below max_retries the retry    *)
(* counter is incremented and the state is re-attempted, with the retries  *)
(* exhausted and a failover state configured the engine jumps to it.       *)

\* the result recorded by the step that ends an attempt
RecordedResult == state_history'[Len(state_history')].result

\* the disposition of a failed attempt: re-attempt, failover or no action
FailureDisposition ==
    LET meta == state_metadata[exec_state] IN
    IF retry_count < meta.max_retries
    THEN /\ pc' = "check"
         /\ retry_count' = retry_count + 1
         /\ DictGet(retry_counts', exec_state, 0) = retry_count + 1
         /\ current_state' = current_state
    ELSE IF meta.failover_state # None
    THEN /\ pc' = "select"
         /\ current_state' = meta.failover_state
         /\ DictGet(retry_counts', exec_state, 0) = 0
    ELSE /\ pc' = "select"
         /\ current_state' = current_state
         /\ retry_counts' = retry_counts

C21_SkipCountsAsFailure ==
    [][(AttemptEnds /\ RecordedResult = SKIP) => FailureDisposition]_vars

----------------------------------------------------------------------------
(* C22: an attempt that ends in TIMEOUT gets the same disposition as one   *)
(* that ends in FAILURE: for the same state and retry index the same       *)
(* retry-counter change, the same decision between re-attempt, failover    *)
(* jump and no action and the same current state; the history entries      *)
(* differ only in the result and the error message.                        *)

\* the entry appended by the step that ends an attempt, without its result
\* and message
RecordedVisit ==
    LET e == state_history'[Len(state_history')] IN
    <<e.state, e.retry_count>> = <<exec_state, retry_count>>

C22_TimeoutDisposedAsFailure ==
    [][(AttemptEnds /\ RecordedResult \in {TIMEOUT, FAILURE}) =>
          (FailureDisposition /\ RecordedVisit)]_vars

\* the same state both timed out and failed at the last retry index, and
\* each time the engine jumped to the failover state
C22_Witness ==
    /\ pc = "select"
    /\ Len(state_history) >= 2
    /\ LET n == Len(state_history)
           e == state_history[n]
           d == state_history[n - 1]
       IN /\ e.state = exec_state
          /\ e.result = TIMEOUT
          /\ e.retry_count = state_metadata[exec_state].max_retries
          /\ d.state = e.state
          /\ d.result = FAILURE
          /\ e.retry_count > d.retry_count
          /\ current_state = state_metadata[exec_state].failover_state
          /\ current_state # exec_state

----------------------------------------------------------------------------
(* C23: whenever the execution of a state S ends without a failover jump   *)
(* (S has no failover state, or its last attempt ended in SUCCESS or       *)
(* SKIP), the next state is selected from the declared transitions of S    *)
(* and their guards whatever the result was: the engine advances to the    *)
(* first passing transition's target and halts at S only when none passes. *)

LastEntry == state_history[Len(state_history)]

\* the execution of the last visited state ended without a failover jump
EndedWithoutJump ==
    \/ state_metadata[LastVisit.state].failover_state = None
    \/ LastEntry.result \in {SUCCESS, SKIP}

C23_SelectionIgnoresResult ==
    (PassJustEnded /\ EndedWithoutJump) =>
        /\ LastEntry.state = LastVisit.state
        /\ selection.consulted
        /\ selection.from = LastVisit.state
        /\ FirstPassingChosen(selection)
        /\ IF selection.next = None
           THEN /\ current_state = LastVisit.state
                /\ pc = "idle"
                /\ run_status = "complete"
           ELSE /\ current_state = selection.next
                /\ pc = "loop"

\* a state without failover exhausted its retries with FAILURE and the
\* engine advanced along its transition
C23_Witness ==
    /\ PassJustEnded
    /\ LastVisit.state = "A"
    /\ state_metadata["A"].failover_state = None
    /\ state_metadata["A"].max_retries >= 1
    /\ LastEntry.result = FAILURE
    /\ LastEntry.retry_count = state_metadata["A"].max_retries
    /\ selection.next = "B"
    /\ current_state = "B"

----------------------------------------------------------------------------
(* C24: max_retries is the number of additional attempts on every visit:   *)
(* each time the run loop executes a state S whose handler keeps failing   *)
(* (a revisit through a transition cycle included, with or without a       *)
(* failover state), S is attempted exactly max_retries(S) + 1 times and    *)
(* the first attempt of the visit has retry index 0.                       *)
C24_RetriesPerVisit ==
    (VisitJustEnded /\ get_state_handler(LastVisit.state) = Fail) =>
        /\ LastVisit.first_retry = 0
        /\ LastVisit.attempts = state_metadata[LastVisit.state].max_retries + 1

----------------------------------------------------------------------------
(* C25: within one attempt the handler is invoked again as long as it      *)
(* returns RETRY and the attempt has not timed out; exactly one history    *)
(* entry is appended per attempt, however many invocations it contained,   *)
(* with the retry index and the final result of the attempt; an attempt    *)
(* whose handler returns RETRY and then SUCCESS before the timeout yields  *)
(* a single SUCCESS entry and the retry counter is not incremented.        *)

\* one invocation of the handler returns
HandlerReturns == pc = "handler" /\ pc' # "handler" /\ ~HandlerRaises

\* the loop test that follows an invocation or starts an attempt
LoopTest == pc = "check" /\ pc' # "check"

\* the final result of the attempt that ends with this step
FinalResult ==
    IF HandlerRaises THEN FAILURE
    ELSE IF TimeoutReached THEN TIMEOUT
    ELSE result

\* the step appends exactly the entry e to the bounded history
Appends(e) == state_history' = LastN(Append(state_history, e), HistoryMaxLen)

C25_OneEntryPerAttempt ==
    [][/\ HandlerReturns =>
            /\ state_history' = state_history
            /\ retry_counts' = retry_counts
            /\ pc' = IF result' = RETRY THEN "check" ELSE "post"
       /\ LoopTest =>
            /\ state_history' = state_history
            /\ pc' = IF TimeoutReached THEN "post" ELSE "handler"
       /\ AttemptEnds =>
            /\ \E e \in {state_history'[Len(state_history')]} :
                  /\ Appends(e)
                  /\ e.state = exec_state
                  /\ e.retry_count = retry_count
                  /\ e.result = FinalResult
            /\ (FinalResult = SUCCESS) =>
                  /\ DictGet(retry_counts', exec_state, 0) = 0
                  /\ pc' = "select"
       /\ ~AttemptEnds => state_history' = state_history]_vars

\* the handler returned RETRY, then SUCCESS, and the attempt left a single
\* SUCCESS entry with retry index 0 and the retry counter at 0
C25_Witness ==
    /\ pc = "select"
    /\ Len(executed) = 1
    /\ LastVisit.outcomes = <<RETRY, SUCCESS>>
    /\ LastVisit.attempts = 1
    /\ state_history =
          <<StateHistoryEntry(LastVisit.state, SUCCESS, 0, None)>>
    /\ DictGet(retry_counts, LastVisit.state, 0) = 0

----------------------------------------------------------------------------
(* C26: with the watchdog enabled with threshold T, a watchdog check logs  *)
(* a warning exactly when the idle time is >= 80% of T and < T and no      *)
(* warning was logged since the last enable_watchdog() or                  *)
(* record_activity(); between two activity recordings at most one warning  *)
(* is logged, and recording activity re-arms the warning.                  *)

IdleTime == now - watchdog_last_activity

\* the step logs a warning
Warns == warnings' = warnings + 1

InWarningWindow ==
    /\ 10 * IdleTime >= 8 * watchdog_timeout[1]
    /\ IdleTime < watchdog_timeout[1]

C26_WarningOncePerIdleEpisode ==
    /\ [](warnings <= 1)
    /\ [][/\ IterationStartsWatched =>
               (Warns <=> (InWarningWindow /\ warnings = 0))
          /\ ~IterationStartsWatched => ~Warns
          /\ (warnings' # warnings /\ ~Warns) =>
               (warnings' = 0 /\ watchdog_last_activity' = now /\ pc' = pc)
          /\ watchdog_last_activity' # watchdog_last_activity =>
               warnings' = 0]_vars

\* a second iteration of a run was warned after the handler recorded
\* activity in the first
C26_Witness ==
    /\ watchdog_timeout = Some(5)
    /\ warnings = 1
    /\ pc = "check"
    /\ steps = 1
    /\ watchdog_last_activity = 4
    /\ IdleTime = 4

----------------------------------------------------------------------------
(* C27: once the watchdog is enabled and the idle time has reached its     *)
(* threshold, no new run-loop iteration and no new attempt (a same-state   *)
(* retry attempt included) starts until activity is recorded.              *)

\* an attempt has just started: nothing was invoked in it yet, and the
\* last activity is the one its start was measured against
AttemptJustStarted ==
    /\ pc = "check"
    /\ Len(executed) > 0
    /\ LastVisit.calls = 0
    /\ watchdog_timeout # NoValue

StartedBeforeThreshold ==
    start_time - watchdog_last_activity < watchdog_timeout[1]

\* C27 as stated: every attempt
C27_WatchdogStopsAttemptsAsStated ==
    AttemptJustStarted => StartedBeforeThreshold

\* C27, amended: the watchdog stands at the head of the run loop only, so
\* it is the first attempt of every iteration that starts below the
\* threshold; the retry attempts of the iteration under way are not checked
C27_WatchdogStopsIterations ==
    (AttemptJustStarted /\ LastVisit.attempts = 0) => StartedBeforeThreshold

\* the retry attempt of the first iteration started at the threshold, and
\* the watchdog then stopped the run at the head of the second iteration
C27_Witness ==
    /\ raised = "RuntimeError"
    /\ run_status = "raised"
    /\ pc = "idle"
    /\ watchdog_timeout # NoValue
    /\ Len(executed) = 1
    /\ LastVisit.attempts = 2
    /\ start_time - watchdog_last_activity >= watchdog_timeout[1]

----------------------------------------------------------------------------
(* C28: the first state executed by every run() call is the configured     *)
(* initial state.                                                          *)

\* C28 as stated
C28_RunStartsAtInitialAsStated ==
    Len(executed) >= 1 => executed[1].state = cfg.initial

\* the step that starts the execution of a state
ExecutionBegins == pc = "loop" /\ pc' = "check"

\* C28, amended: a run() starts executing at current_state, which is the
\* configured initial state when no state was executed on the engine before
\* or when reset() was the call right before the run; any other run()
\* starts at the current state the preceding run left
C28_RunStartsAtCurrentState ==
    [][/\ (RunCalled /\ initialized') =>
            current_state' = IF state_history = << >> \/ last_op = "reset"
                             THEN cfg.initial
                             ELSE current_state
       /\ (ExecutionBegins /\ steps = 0) =>
            /\ Len(executed) = 0
            /\ executed'[1].state = current_state]_vars

\* the first run went from A to B, and after reset() the second run
\* executed A again
C28_Witness ==
    /\ runs = 2
    /\ Len(executed) = 1
    /\ executed[1].state = "A"
    /\ cfg.initial = "A"
    /\ Len(state_history) = 3
    /\ state_history[2].state = "B"
    /\ state_history[3].state = "A"

----------------------------------------------------------------------------
(* C29: a run() that ended at the iteration cap is distinguishable from    *)
(* one that completed normally by the history and the current state: no    *)
(* two executions, one ending at the cap and one ending because no         *)
(* transition applied, leave the same history (state, result and retry     *)
(* index of every entry) and the same current_state.                       *)

\* state, result and retry index of every entry
Visible(h) == [i \in DOMAIN h |-> <<h[i].state, h[i].result, h[i].retry_count>>]

C29_CapDistinguishable ==
    ( /\ RunJustEnded
      /\ runs = 1
      /\ previous.taken
      /\ {previous.status, run_status} = {"safety_limit", "complete"} )
    => <<Visible(state_history), current_state>> #
          <<Visible(previous.history), previous.current>>

----------------------------------------------------------------------------
(* C30: after a successful initialize() the transition map maps each       *)
(* from_state to exactly the declared transitions with that from_state,    *)
(* in declaration order, and no later operation (run(), reset(),           *)
(* enable_watchdog(), record_activity(), get_history(), a repeated         *)
(* initialize()) changes the transition map, the metadata mapping or the   *)
(* transition list: in every state of an initialized engine, whatever was  *)
(* called since, the three hold what the subclass declares.                *)

\* the positions of the declared transitions out of s
DeclaredAt(s) == {j \in DOMAIN cfg.transitions : cfg.transitions[j].from_state = s}

\* q lists exactly the declared transitions out of s, in declaration order
ListsDeclared(q, s) ==
    /\ Len(q) = Cardinality(DeclaredAt(s))
    /\ \E f \in [DOMAIN q -> DeclaredAt(s)] :
          /\ \A i \in DOMAIN q : q[i] = cfg.transitions[f[i]]
          /\ \A i, k \in DOMAIN q : i < k => f[i] < f[k]

C30_TransitionMapFixed ==
    initialized =>
        /\ DOMAIN transition_map = {s \in Steps \cup {OtherX} : DeclaredAt(s) # {}}
        /\ \A s \in DOMAIN transition_map : ListsDeclared(transition_map[s], s)
        /\ transitions = cfg.transitions
        /\ state_metadata = cfg.metadata

\* two transitions out of A are mapped in their declared order after a
\* run() and a repeated initialize()
C30_Witness ==
    /\ initialized
    /\ last_op = "initialize"
    /\ runs >= 1
    /\ state_history # << >>
    /\ current_state = cfg.initial
    /\ Len(DictGet(transition_map, "A", << >>)) = 2
    /\ transition_map["A"][1].to_state = "B"
    /\ transition_map["A"][2].to_state = "C"

----------------------------------------------------------------------------
(* C31: in every reachable state the retry counter of every state S is     *)
(* between 0 and max_retries(S), the retry index of every history entry    *)
(* is between 0 and the max_retries of its state, and within one           *)
(* execution of a state the retry indices of its consecutive attempts      *)
(* increase by exactly 1.                                                  *)

\* the history entries of the attempts of the last executed state that the
\* bounded history still holds, oldest first
VisitEntries ==
    LET k == Min(LastVisit.attempts, Len(state_history))
    IN SubSeq(state_history, Len(state_history) - k + 1, Len(state_history))

C31_RetryIndexBounds ==
    /\ \A s \in DOMAIN retry_counts :
          /\ s \in DOMAIN state_metadata
          /\ 0 <= retry_counts[s]
          /\ retry_counts[s] <= state_metadata[s].max_retries
    /\ \A i \in DOMAIN state_history :
          /\ state_history[i].state \in DOMAIN state_metadata
          /\ 0 <= state_history[i].retry_count
          /\ state_history[i].retry_count <=
                state_metadata[state_history[i].state].max_retries
    /\ Len(executed) > 0 =>
          /\ \A i \in DOMAIN VisitEntries : VisitEntries[i].state = LastVisit.state
          /\ \A i \in 1..(Len(VisitEntries) - 1) :
                VisitEntries[i + 1].retry_count = VisitEntries[i].retry_count + 1
          /\ Len(VisitEntries) = LastVisit.attempts =>
                (LastVisit.attempts > 0 =>
                    VisitEntries[1].retry_count = LastVisit.first_retry)

\* a state used all its retries: indices 0, 1, 2 in one execution and the
\* counter at max_retries
C31_Witness ==
    /\ pc = "select"
    /\ Len(executed) > 0
    /\ LastVisit.attempts = 3
    /\ state_metadata[LastVisit.state].max_retries = 2
    /\ DictGet(retry_counts, LastVisit.state, 0) = 2
    /\ Len(state_history) = 3
    /\ state_history[1].retry_count = 0
    /\ state_history[3].retry_count = 2

----------------------------------------------------------------------------
(* C32: no history entry ever has the result RETRY: every recorded result  *)
(* is one of SUCCESS, FAILURE, SKIP, TIMEOUT; the invocation loop is left  *)
(* with an unresolved RETRY only when the timeout has been reached, and    *)
(* the attempt is then recorded as TIMEOUT.                                *)
C32_NoRetryRecorded ==
    /\ \A i \in DOMAIN state_history :
          state_history[i].result \in {SUCCESS, FAILURE, SKIP, TIMEOUT}
    /\ (pc = "post" /\ result = RETRY) => TimeoutReached
    /\ (VisitJustEnded /\ LastVisit.attempts > 0 /\ Len(LastVisit.outcomes) > 0
          /\ LastVisit.outcomes[Len(LastVisit.outcomes)] = RETRY) =>
          LastEntry.result = TIMEOUT

\* the handler kept returning RETRY until the timeout and the attempt was
\* recorded as TIMEOUT
C32_Witness ==
    /\ VisitJustEnded
    /\ LastVisit.attempts = 1
    /\ LastVisit.outcomes = <<RETRY, RETRY>>
    /\ state_history = <<StateHistoryEntry(LastVisit.state, TIMEOUT, 0, "timeout")>>

----------------------------------------------------------------------------
(* C33: reset() changes only current_state and the retry counters: the     *)
(* history and the watchdog state (threshold, last activity, warned flag)  *)
(* are left as they are; so after a run() that the watchdog aborted,       *)
(* reset() followed by run() aborts again before executing any state       *)
(* unless record_activity() or enable_watchdog() is called in between.     *)

\* a call of reset() (one that follows another reset() at once changes
\* nothing and is left out)
ResetCalled ==
    /\ pc = "idle"
    /\ last_op' = "reset"
    /\ \/ last_op # "reset"
       \/ current_state' # current_state
       \/ retry_counts' # retry_counts

\* the watchdog is enabled and the idle time has reached its threshold
WatchdogExpired ==
    /\ watchdog_timeout # NoValue
    /\ now - watchdog_last_activity >= watchdog_timeout[1]

\* the first pass of a run() through the head of its loop
FirstIteration ==
    pc = "loop" /\ pc' # "loop" /\ steps = 0 /\ executed = << >>

C33_ResetKeepsWatchdog ==
    [][/\ ResetCalled =>
            /\ current_state' = cfg.initial
            /\ retry_counts' = EmptyDict
            /\ UNCHANGED <<state_history, watchdog, config_fields,
                           initialized, local>>
       /\ WatchdogExpired =>
            \/ WatchdogExpired'
            \/ (watchdog_last_activity' = now /\ pc \in {"idle", "handler"}
                  /\ pc' = pc /\ ~ResetCalled)
       /\ (RunCalled /\ WatchdogExpired /\ initialized') =>
            (pc' = "loop" /\ steps' = 0 /\ executed' = << >> /\ WatchdogExpired')
       /\ (FirstIteration /\ WatchdogExpired) =>
            /\ raised' = "RuntimeError"
            /\ pc' = "idle"
            /\ executed' = << >>
            /\ UNCHANGED <<state_history, current_state>>]_vars

\* the watchdog stopped the first run after A, reset() went back to A, and
\* the second run was stopped before it executed anything
C33_Witness ==
    /\ raised = "RuntimeError"
    /\ pc = "idle"
    /\ last_op = "run"
    /\ runs = 2
    /\ executed = << >>
    /\ transitions = << StateTransition("A", "B", None) >>
    /\ state_history = <<StateHistoryEntry("A", SUCCESS, 0, None)>>
    /\ current_state = "A"

----------------------------------------------------------------------------
(* C34: after a successful initialize(), current_state is a member of the  *)
(* declared state set and has a metadata entry in every reachable state,   *)
(* after any sequence of run() and reset() calls, failover jumps included. *)
C34_CurrentStateDeclared ==
    initialized =>
        /\ current_state \in states[1]
        /\ current_state \in DOMAIN state_metadata

----------------------------------------------------------------------------
(* C35: every recorded attempt corresponds to at least one invocation of   *)
(* the handler: no history entry is appended for an attempt in which the   *)
(* handler of the state was never invoked, states with a timeout included. *)
C35_AttemptInvokesHandler ==
    [][AttemptEnds => (pc = "handler" \/ LastVisit.calls > 0)]_vars

====
